---- MODULE Spec2Model ----
(***************************************************************************)
(* A model of zach/trainlib/train.py: the training script of a multi-head  *)
(* chest X-ray classifier.  The script is a straight-line pipeline over    *)
(* pandas, os, pickle and Keras.  Calls into those libraries are modelled  *)
(* by what the called function does with the arguments the script passes:  *)
(* os.path.join and os.path.exists exactly, the Keras dataframe iterator   *)
(* by its index generator, model.fit by epochs of steps_per_epoch batches  *)
(* followed by validation_steps batches and the callbacks in list order.   *)
(* Images are stood for by their file paths, label values by the cell      *)
(* <<row, column>> they are read from, weights by the number of the epoch  *)
(* that produced them, losses by small integers.  Every manifest row is    *)
(* taken to name a readable image file.                                    *)
(***************************************************************************)
EXTENDS Integers, Sequences, FiniteSets, TLC

VARIABLES
    pc,         \* the statement of __main__ that runs next
    fs,         \* the files the run reads and the directories it tests
    config,     \* the dictionary load_config returned
    train,      \* the three dataframes of load_datasets
    valid,
    test,
    gens,       \* the three generators of get_image_generators
    model,      \* the Keras model: heads, losses, weights, optimizer
    fit,        \* model.fit: epoch counter, callbacks, history
    Y_pred,     \* what model.predict has accumulated
    completed,  \* the stages of __main__ that have returned, in order
    err,        \* the uncaught exception that ended the run, if any
    iterated    \* per generator: whether a caller called iter() on it again

vars == <<pc, fs, config, train, valid, test, gens, model, fit, Y_pred,
          completed, err, iterated>>

----------------------------------------------------------------------------
(* Bounds of the model *)

\* Rows per manifest where batches and epochs are checked row by row.
MaxRows == 2

\* Largest MAX_EPOCHS a configuration file sets.
MaxEpochs == 6

\* Largest MAX_EPOCHS where the rows of each epoch are checked.
MaxShortEpochs == 2

\* Rows per manifest where load_datasets is checked on arbitrary paths.
MaxPathRows == 1

\* Predictions recorded; model.predict keeps accumulating beyond it.
MaxPredRecorded == 4

(* Program constants *)

\* len(labels), the label columns every batch carries.
NumLabels == 14

\* EarlyStopping(patience=4)
ESPatience == 4

\* ReduceLROnPlateau(patience=2)
LRPatience == 2

\* ReduceLROnPlateau(factor=0.1): the learning rate is divided by 10.
LRDivisor == 10

\* ReduceLROnPlateau(min_lr=1e-6); learning rates are counted in units of 1e-6.
MinLR == 1

\* Dense(1, ...): the width of every head.
HeadUnits == 1

----------------------------------------------------------------------------
(* Values *)

Min(a, b) == IF a < b THEN a ELSE b

Max(a, b) == IF a > b THEN a ELSE b

\* The validation losses an epoch may end with.
LossValues == {1, 2}

\* A loss no epoch reaches: the callbacks' initial `best` (np.Inf).
Inf == (CHOOSE m \in LossValues : \A x \in LossValues : x <= m) + 1

\* No weights: EarlyStopping.best_weights before the first improvement, and
\* the content of model.hdf5 before the first save.
NoWeights == -1

RequiredKeys ==
    {"META_BASE_PATH", "IMAGE_BASE_PATH", "IMG_HEIGHT", "IMG_WIDTH", "BATCH_SIZE",
     "TEST_BATCH", "NUM_CLASSES", "INITIAL_LR", "MAX_EPOCHS", "WEIGHTS_DIR"}

\* Paths are sequences of characters; "/" is os.sep.
SEP == "/"

\* The paths a manifest row or IMAGE_BASE_PATH may hold.
PathValues ==
    {<<>>, <<"a">>, <<"/">>, <<"/", "a">>, <<"a", "/">>}

BatchSizes == {1, 2}

\* NUM_CLASSES below, at and above the number of label columns.
NumClassesValues == {1, NumLabels, NumLabels + 1}

FileStatus == {"ok", "absent", "malformed"}

\* What the path WEIGHTS_DIR names when the run starts.
DirStatus == {"absent", "dir", "file"}

Splits == {"train", "valid", "test"}

----------------------------------------------------------------------------
(* os.path.join(base_path, relative_path) *)

startswith(s, c) == Len(s) > 0 /\ s[1] = c

endswith(s, c) == Len(s) > 0 /\ s[Len(s)] = c

\* A mutant of modify_paths: plain concatenation with a separator.
modify_paths_concat(base_path, relative_path) ==
    base_path \o <<SEP>> \o relative_path

modify_paths(base_path, relative_path) ==
    IF startswith(relative_path, SEP) THEN relative_path
    ELSE IF base_path = <<>> \/ endswith(base_path, SEP)
         THEN base_path \o relative_path
         ELSE base_path \o <<SEP>> \o relative_path

\* df['path'] = df['path'].apply(lambda x: modify_paths(image_base, x))
ApplyModifyPaths(df, image_base) ==
    [i \in 1..Len(df) |-> [df[i] EXCEPT !.path = modify_paths(image_base, df[i].path)]]

\* A row as read from a csv: its position, its path cell, its path as read.
Row(i, p) == [idx |-> i, path |-> p, csv_path |-> p]

\* The manifests of the pipeline: n rows with distinct relative paths.
RowPath(i) == [j \in 1..i |-> "a"]

Manifest(n) == [i \in 1..n |-> Row(i, RowPath(i))]

\* The three csv files of a pipeline run: one row in each, or two.
Manifests == {<<Manifest(n), Manifest(n), Manifest(n)>> : n \in {1, 2}}

\* The three csv files where the rows of each epoch are checked: train.csv and
\* valid.csv of any lengths, a two-row test.csv.
EpochManifests ==
    {<<Manifest(n), Manifest(m), Manifest(2)>> : n \in 1..MaxRows, m \in 1..MaxRows}

\* Manifests of up to MaxPathRows rows with any path values.
SeqsUpTo(S, n) == UNION {[1..k -> S] : k \in 0..n}

PathRows ==
    {[i \in 1..Len(ps) |-> Row(i, ps[i])] : ps \in SeqsUpTo(PathValues, MaxPathRows)}

PathManifests == PathRows \X PathRows \X PathRows

----------------------------------------------------------------------------
(* The Keras dataframe iterator behind flow_from_dataframe *)

Perms(n) == {p \in [1..n -> 1..n] : \A i, j \in 1..n : p[i] = p[j] => i = j}

\* No batch drawn yet.
NoBatch == [start |-> 0, rows |-> <<>>, x |-> <<>>, y |-> <<>>]

\* flow_from_dataframe(df, x_col="path", y_col=labels, class_mode="raw",
\* shuffle=..., batch_size=...): an iterator at the start of its first pass.
flow_from_dataframe(df, shuffle, batch_size) ==
    [filepaths   |-> [i \in 1..Len(df) |-> df[i].path],
     n           |-> Len(df),
     batch_size  |-> batch_size,
     shuffle     |-> shuffle,
     batch_index |-> 0,
     index_array |-> <<>>]

\* The order of a pass: set when batch_index is 0, a permutation when shuffling.
IndexArray(it, perm) ==
    IF it.batch_index = 0
    THEN (IF it.shuffle THEN perm ELSE [i \in 1..it.n |-> i])
    ELSE it.index_array

\* Offset of the next batch in the pass.
CurrentIndex(it) ==
    IF it.n = 0 THEN 0 ELSE (it.batch_index * it.batch_size) % it.n

\* One step of the iterator: batch_index moves on, or wraps after the last batch.
IterAdvance(it, perm) ==
    [it EXCEPT !.index_array = IndexArray(it, perm),
               !.batch_index = IF it.n > CurrentIndex(it) + it.batch_size
                               THEN it.batch_index + 1 ELSE 0]

\* The (batch_x, batch_y) pair of that step: up to batch_size rows of the pass,
\* batch_y one row of NumLabels label cells per image, columns numbered from 0.
IterBatch(it, perm) ==
    LET ia    == IndexArray(it, perm)
        first == CurrentIndex(it)
        last  == Min(first + it.batch_size, it.n)
        rows  == [k \in 1..(last - first) |-> ia[first + k]]
    IN  [start |-> first,
         rows  |-> rows,
         x     |-> [k \in 1..Len(rows) |-> it.filepaths[rows[k]]],
         y     |-> [k \in 1..Len(rows) |->
                       [c \in 0..(NumLabels - 1) |-> <<rows[k], c>>]]]

----------------------------------------------------------------------------
(* generator_wrapper(generator, num_classes) *)

\* range(num_classes) as a set of indices.
range(num_classes) == 0..(num_classes - 1)

\* batch_y[:, i] raises IndexError for a column the batch does not have.
IndexErrorIn(batch_y_columns, num_classes) ==
    \E i \in range(num_classes) : i \notin batch_y_columns

\* A mutant of generator_wrapper: the label list starts at column 1.
generator_wrapper_shifted(batch, num_classes) ==
    [x |-> batch.x,
     y |-> [i \in 1..num_classes |->
               [k \in 1..Len(batch.y) |-> batch.y[k][Min(i, NumLabels - 1)]]]]

\* yield (batch_x, [batch_y[:,i] for i in range(num_classes)])
generator_wrapper(batch, num_classes) ==
    [x |-> batch.x,
     y |-> [i \in 1..num_classes |->
               [k \in 1..Len(batch.y) |-> batch.y[k][i - 1]]]]

\* The generator object the call returns: it has run nothing yet.
wrapped(it, num_classes) ==
    [it          |-> it,
     num_classes |-> num_classes,
     raw         |-> NoBatch,
     out         |-> [x |-> <<>>, y |-> <<>>],
     yielded     |-> 0,
     finished    |-> FALSE]

\* next(g): take the next pair from the underlying iterator and yield it
\* reshaped; an IndexError ends the generator.
GenNext(g, perm) ==
    LET batch == IterBatch(g.it, perm)
    IN  IF IndexErrorIn(0..(NumLabels - 1), g.num_classes)
        THEN [g EXCEPT !.it = IterAdvance(g.it, perm), !.raw = batch,
                       !.finished = TRUE]
        ELSE [g EXCEPT !.it = IterAdvance(g.it, perm), !.raw = batch,
                       !.out = generator_wrapper(batch, g.num_classes),
                       !.yielded = Min(g.yielded + 1, 1)]

\* A mutant of PyIter: iterating again starts the underlying iterator over.
PyIterRestarts(g) ==
    [g EXCEPT !.it.batch_index = 0]

\* iter(g) on a generator object returns the object itself.
PyIter(g) == g

\* One more batch drawn: the generator, the rows taken so far, the batches
\* yielded so far.
DrawOne(acc, perm) ==
    LET g1 == GenNext(acc.g, perm)
    IN  IF g1.finished
        THEN [g |-> g1, rows |-> acc.rows, batches |-> acc.batches]
        ELSE [g |-> g1, rows |-> acc.rows \o g1.raw.rows, batches |-> acc.batches + 1]

\* k batches drawn in a row; the draw stops at a raised exception.
RECURSIVE DrawFrom(_, _, _)
DrawFrom(acc, k, perm) ==
    IF k = 0 \/ acc.g.finished THEN acc
    ELSE DrawFrom(DrawOne(acc, perm), k - 1, perm)

Draw(g, k, perm) == DrawFrom([g |-> g, rows |-> <<>>, batches |-> 0], k, perm)

get_image_generators(train_df, valid_df, test_df, cfg) ==
    [train |-> wrapped(flow_from_dataframe(train_df, TRUE, cfg["BATCH_SIZE"]),
                       cfg["NUM_CLASSES"]),
     valid |-> wrapped(flow_from_dataframe(valid_df, TRUE, cfg["BATCH_SIZE"]),
                       cfg["NUM_CLASSES"]),
     test  |-> wrapped(flow_from_dataframe(test_df, FALSE, cfg["TEST_BATCH"]),
                       cfg["NUM_CLASSES"])]

\* The generators before get_image_generators has run.
NoGens ==
    LET none == wrapped(flow_from_dataframe(<<>>, FALSE, 1), 0)
    IN  [train |-> none, valid |-> none, test |-> none]

----------------------------------------------------------------------------
(* Configuration files *)

\* A config.json with every required key.
FullConfig(num_classes, batch_size, test_batch, max_epochs, image_base) ==
    [META_BASE_PATH  |-> <<"m">>,
     IMAGE_BASE_PATH |-> image_base,
     IMG_HEIGHT      |-> 224,
     IMG_WIDTH       |-> 224,
     BATCH_SIZE      |-> batch_size,
     TEST_BATCH      |-> test_batch,
     NUM_CLASSES     |-> num_classes,
     INITIAL_LR      |-> 100,
     MAX_EPOCHS      |-> max_epochs,
     WEIGHTS_DIR     |-> <<"w">>]

Without(cfg, key) == [k \in (DOMAIN cfg) \ {key} |-> cfg[k]]

\* The configuration the others vary: as many classes as label columns.
DefaultConfig == FullConfig(NumLabels, 2, 2, MaxEpochs, <<"/", "a">>)

\* What config.json holds in a pipeline run: every batch size with every epoch
\* cap, the other class counts and test batch size, and each key missing in turn.
ConfigFiles ==
    {[DefaultConfig EXCEPT !.BATCH_SIZE = b, !.MAX_EPOCHS = e] :
        b \in BatchSizes, e \in 1..MaxEpochs}
    \cup {[DefaultConfig EXCEPT !.NUM_CLASSES = nc] : nc \in NumClassesValues}
    \cup {[DefaultConfig EXCEPT !.TEST_BATCH = tb] : tb \in BatchSizes}
    \cup {Without(DefaultConfig, k) : k \in RequiredKeys}

\* What config.json holds where the rows of each epoch are checked; the test
\* rows come one to a batch.
EpochConfigFiles ==
    {[DefaultConfig EXCEPT !.BATCH_SIZE = b, !.MAX_EPOCHS = e, !.TEST_BATCH = 1] :
        b \in BatchSizes, e \in 1..MaxShortEpochs}

\* The first of `keys` (in the order the code reads them) the config lacks.
RECURSIVE FirstMissing(_, _)
FirstMissing(cfg, keys) ==
    IF keys = <<>> THEN "none"
    ELSE IF Head(keys) \notin DOMAIN cfg THEN Head(keys)
    ELSE FirstMissing(cfg, Tail(keys))

----------------------------------------------------------------------------
(* get_model(num_classes) *)

\* A mutant of get_model: one head too few (range(num_classes - 1)).
get_model_short(num_classes) ==
    [trunk   |-> "dropout",
     outputs |-> [i \in 1..(num_classes - 1) |->
                    [units |-> HeadUnits, activation |-> "sigmoid", input |-> "dropout"]],
     losses  |-> <<>>,
     lr      |-> 0,
     weights |-> 0,
     stop_training |-> FALSE]

\* DenseNet121 without its top, Dense(512) and Dropout(0.3) as the trunk x,
\* then one Dense(1, sigmoid) head on x per class.
get_model(num_classes) ==
    [trunk   |-> "dropout",
     outputs |-> [i \in 1..num_classes |->
                    [units |-> HeadUnits, activation |-> "sigmoid", input |-> "dropout"]],
     losses  |-> <<>>,
     lr      |-> 0,
     weights |-> 0,
     stop_training |-> FALSE]

\* No model built yet.
NoModel ==
    [trunk |-> "none", outputs |-> <<>>, losses |-> <<>>, lr |-> 0, weights |-> 0,
     stop_training |-> FALSE]

----------------------------------------------------------------------------
(* train_model: step counts, callbacks *)

\* A mutant of ceil: the floor.
floor_div(n, d) == n \div d

\* math.ceil(n / d) for a non-negative n and a positive d.
ceil(n, d) == (n + d - 1) \div d

\* losses = ['binary_crossentropy' for i in range(config['NUM_CLASSES'])]
Losses(cfg) == [i \in 1..cfg["NUM_CLASSES"] |-> "binary_crossentropy"]

\* model.fit before it is called.
NoFit ==
    [epochs      |-> 0,
     train_epoch |-> 0,
     val_epoch   |-> 0,
     epoch       |-> 0,
     phase       |-> "train",
     history     |-> <<>>,
     reduce_lr   |-> [best |-> Inf, wait |-> 0],
     checkloss   |-> [best |-> Inf, saved |-> NoWeights],
     ES          |-> [best |-> Inf, wait |-> 0, best_weights |-> NoWeights,
                      stopped_epoch |-> 0],
     log         |-> [train |-> <<>>, valid |-> <<>>, train_batches |-> 0,
                      val_batches |-> 0]]

\* ReduceLROnPlateau(monitor='val_loss', mode='min', factor=0.1, patience=2,
\* min_lr=1e-6).on_epoch_end: the callback's state and the learning rate.
ReduceLROnPlateau(cb, lr, val_loss) ==
    IF val_loss < cb.best
    THEN [cb |-> [best |-> val_loss, wait |-> 0], lr |-> lr]
    ELSE IF cb.wait + 1 >= LRPatience /\ lr > MinLR
         THEN [cb |-> [cb EXCEPT !.wait = 0], lr |-> Max(lr \div LRDivisor, MinLR)]
         ELSE [cb |-> [cb EXCEPT !.wait = cb.wait + 1], lr |-> lr]

\* ModelCheckpoint(weights_path, monitor='val_loss', mode='min',
\* save_best_only=True).on_epoch_end: whether it writes the file.
CheckpointSaves(cb, val_loss) == val_loss < cb.best

ModelCheckpoint(cb, weights, val_loss) ==
    IF CheckpointSaves(cb, val_loss)
    THEN [best |-> val_loss, saved |-> weights]
    ELSE cb

\* EarlyStopping(monitor='val_loss', mode='min', patience=4,
\* restore_best_weights=True).on_epoch_end: the callback's state, whether
\* training stops, and the weights the model holds afterwards.
EarlyStopping(cb, weights, val_loss, epoch) ==
    IF val_loss < cb.best
    THEN [cb |-> [cb EXCEPT !.best = val_loss, !.wait = 0, !.best_weights = weights],
          stop |-> FALSE, weights |-> weights]
    ELSE IF cb.wait + 1 >= ESPatience
         THEN [cb |-> [cb EXCEPT !.wait = cb.wait + 1, !.stopped_epoch = epoch],
               stop |-> TRUE, weights |-> cb.best_weights]
         ELSE [cb |-> [cb EXCEPT !.wait = cb.wait + 1],
               stop |-> FALSE, weights |-> weights]

----------------------------------------------------------------------------
(* __main__ *)

\* The statements of __main__ in program order; train_model runs its set-up
\* and then model.fit, persistence writes 'predictions' and then 'train_hist'.
StageOrder ==
    <<"load_config", "load_datasets", "get_image_generators", "get_model",
      "train_model", "predict", "dump_predictions", "dump_train_hist">>

\* Position of a stage in __main__.
StageIndex(stage) == CHOOSE i \in 1..Len(StageOrder) : StageOrder[i] = stage

\* A mutant of AfterStage: the model is built before the generators.
AfterStageSwapped(stage) ==
    CASE stage = "load_datasets"        -> "get_model"
      [] stage = "get_model"            -> "get_image_generators"
      [] stage = "get_image_generators" -> "train_model"
      [] stage = "dump_train_hist"      -> "done"
      [] OTHER -> StageOrder[StageIndex(stage) + 1]

\* The statement that follows a stage that returned.
AfterStage(stage) ==
    IF stage = "dump_train_hist" THEN "done"
    ELSE StageOrder[StageIndex(stage) + 1]

NoErr == [stage |-> "none", exc |-> "none"]

\* The stage a statement belongs to: model.fit is called inside train_model.
StageOf(label) == IF label = "fit" THEN "train_model" ELSE label

\* An uncaught exception: the process ends where it is.
Raise(exc) ==
    /\ pc' = "error"
    /\ err' = [stage |-> StageOf(pc), exc |-> exc]
    /\ UNCHANGED <<fs, config, train, valid, test, gens, model, fit, Y_pred,
                   completed, iterated>>

\* A stage returns: __main__ moves to its next statement.
Return(stage) ==
    /\ pc' = AfterStage(stage)
    /\ completed' = Append(completed, stage)

Init ==
    /\ pc = "load_config"
    /\ fs \in [config_json : FileStatus, train_csv : FileStatus,
               valid_csv : FileStatus, test_csv : FileStatus,
               weights_dir : DirStatus, written : {{}}]
    /\ config = <<>>
    /\ train = <<>>
    /\ valid = <<>>
    /\ test = <<>>
    /\ gens = NoGens
    /\ model = NoModel
    /\ fit = NoFit
    /\ Y_pred = <<>>
    /\ completed = <<>>
    /\ err = NoErr
    /\ iterated = [s \in Splits |-> "no"]

\* A mutant of load_config: an unreadable config.json yields an empty dictionary.
load_config_swallow(status, content) ==
    IF status = "ok" THEN [exc |-> "none", value |-> content]
    ELSE [exc |-> "none", value |-> <<>>]

\* load_config('config.json'): open() and json.load on a file in the given
\* state holding `content`; the exception raised, or the dictionary returned.
load_config(status, content) ==
    CASE status = "absent"    -> [exc |-> "FileNotFoundError", value |-> <<>>]
      [] status = "malformed" -> [exc |-> "JSONDecodeError", value |-> <<>>]
      [] OTHER                -> [exc |-> "none", value |-> content]

LoadConfig(files) ==
    /\ pc = "load_config"
    /\ \E content \in files :
         LET r == load_config(fs.config_json, content)
         IN  IF r.exc # "none"
             THEN Raise(r.exc)
             ELSE /\ config' = r.value
                  /\ Return("load_config")
                  /\ UNCHANGED <<fs, train, valid, test, gens, model, fit, Y_pred,
                                 err, iterated>>

\* What pd.read_csv and the 'path' column access do with one manifest file.
ReadCsvError(status) ==
    CASE status = "absent"    -> "FileNotFoundError"
      [] status = "malformed" -> "ParserError"
      [] OTHER -> "none"

\* The first exception load_datasets runs into, in statement order.
LoadDatasetsError ==
    IF FirstMissing(config, <<"META_BASE_PATH", "IMAGE_BASE_PATH">>) # "none"
    THEN "KeyError"
    ELSE IF ReadCsvError(fs.train_csv) # "none" THEN ReadCsvError(fs.train_csv)
    ELSE IF ReadCsvError(fs.valid_csv) # "none" THEN ReadCsvError(fs.valid_csv)
    ELSE ReadCsvError(fs.test_csv)

\* load_datasets(config) where the three csv files hold tr, va and te.
LoadDatasetsFrom(tr, va, te) ==
    /\ pc = "load_datasets"
    /\ LoadDatasetsError = "none"
    /\ train' = ApplyModifyPaths(tr, config["IMAGE_BASE_PATH"])
    /\ valid' = ApplyModifyPaths(va, config["IMAGE_BASE_PATH"])
    /\ test' = ApplyModifyPaths(te, config["IMAGE_BASE_PATH"])
    /\ Return("load_datasets")
    /\ UNCHANGED <<fs, config, gens, model, fit, Y_pred, err, iterated>>

LoadDatasets(csvs) ==
    /\ pc = "load_datasets"
    /\ IF LoadDatasetsError # "none"
       THEN Raise(LoadDatasetsError)
       ELSE \E m \in csvs : LoadDatasetsFrom(m[1], m[2], m[3])

GetImageGenerators ==
    /\ pc = "get_image_generators"
    /\ IF FirstMissing(config, <<"IMG_HEIGHT", "IMG_WIDTH", "BATCH_SIZE",
                                 "TEST_BATCH", "NUM_CLASSES">>) # "none"
       THEN Raise("KeyError")
       ELSE /\ gens' = get_image_generators(train, valid, test, config)
            /\ Return("get_image_generators")
            /\ UNCHANGED <<fs, config, train, valid, test, model, fit, Y_pred,
                           err, iterated>>

GetModel ==
    /\ pc = "get_model"
    /\ IF "NUM_CLASSES" \notin DOMAIN config
       THEN Raise("KeyError")
       ELSE /\ model' = get_model(config["NUM_CLASSES"])
            /\ Return("get_model")
            /\ UNCHANGED <<fs, config, train, valid, test, gens, fit, Y_pred,
                           err, iterated>>

\* os.path.exists(weights_dir): true of anything the path names.
path_exists(status) == status # "absent"

\* if not os.path.exists(weights_dir): os.makedirs(weights_dir)
EnsureWeightsDir(status) ==
    IF ~path_exists(status) THEN "dir" ELSE status

\* train_model up to the call of model.fit: the configuration reads, the step
\* counts, compile, the callbacks and the weights directory.
TrainModel ==
    /\ pc = "train_model"
    /\ IF FirstMissing(config, <<"BATCH_SIZE", "TEST_BATCH", "INITIAL_LR",
                                 "MAX_EPOCHS", "WEIGHTS_DIR", "NUM_CLASSES">>) # "none"
       THEN Raise("KeyError")
       ELSE /\ fit' = [NoFit EXCEPT
                          !.epochs = config["MAX_EPOCHS"],
                          !.train_epoch = ceil(Len(train), config["BATCH_SIZE"]),
                          !.val_epoch = ceil(Len(valid), config["BATCH_SIZE"])]
            /\ model' = [model EXCEPT !.losses = Losses(config),
                                      !.lr = config["INITIAL_LR"]]
            /\ fs' = [fs EXCEPT !.weights_dir = EnsureWeightsDir(fs.weights_dir)]
            /\ pc' = "fit"
            /\ UNCHANGED <<config, train, valid, test, gens, Y_pred, completed,
                           err, iterated>>

\* Saving model.hdf5 needs the directory it lies in.
SaveError == IF fs.weights_dir = "dir" THEN "none" ELSE "OSError"

\* The training half of an epoch of model.fit: steps_per_epoch batches from
\* train_ds, each a gradient step; the weights are then those of this epoch.
FitTrain ==
    /\ pc = "fit"
    /\ fit.phase = "train"
    /\ fit.epoch < fit.epochs
    /\ ~model.stop_training
    /\ \E perm \in Perms(Len(train)) :
         LET tr == Draw(gens.train, fit.train_epoch, perm)
         IN  IF tr.g.finished
             THEN Raise("IndexError")
             ELSE /\ gens' = [gens EXCEPT !.train = tr.g]
                  /\ fit' = [fit EXCEPT !.phase = "validate",
                                        !.log.train = tr.rows,
                                        !.log.train_batches = tr.batches]
                  /\ model' = [model EXCEPT !.weights = fit.epoch + 1]
                  /\ UNCHANGED <<pc, fs, config, train, valid, test, Y_pred,
                                 completed, err, iterated>>

\* The end of the epoch: validation_steps batches from valid_ds give val_loss,
\* then the callbacks reduce_lr, checkloss, ES run in that order.
FitValidate ==
    /\ pc = "fit"
    /\ fit.phase = "validate"
    /\ \E perm \in Perms(Len(valid)), val_loss \in LossValues :
         LET va    == Draw(gens.valid, fit.val_epoch, perm)
             epoch == fit.epoch + 1
             rl    == ReduceLROnPlateau(fit.reduce_lr, model.lr, val_loss)
             ck    == ModelCheckpoint(fit.checkloss, model.weights, val_loss)
             es    == EarlyStopping(fit.ES, model.weights, val_loss, epoch)
         IN  IF va.g.finished
             THEN Raise("IndexError")
             ELSE IF CheckpointSaves(fit.checkloss, val_loss) /\ SaveError # "none"
             THEN Raise(SaveError)
             ELSE /\ gens' = [gens EXCEPT !.valid = va.g]
                  /\ fit' = [fit EXCEPT
                               !.phase = "train",
                               !.epoch = epoch,
                               !.history = Append(fit.history, val_loss),
                               !.reduce_lr = rl.cb,
                               !.checkloss = ck,
                               !.ES = es.cb,
                               !.log.valid = va.rows,
                               !.log.val_batches = va.batches]
                  /\ model' = [model EXCEPT !.weights = es.weights,
                                            !.lr = rl.lr,
                                            !.stop_training = es.stop]
                  /\ fs' = [fs EXCEPT !.written =
                               IF CheckpointSaves(fit.checkloss, val_loss)
                               THEN fs.written \cup {"model.hdf5"} ELSE fs.written]
                  /\ UNCHANGED <<pc, config, train, valid, test, Y_pred, completed,
                                 err, iterated>>

\* model.fit returns after the last epoch or once a callback stopped training.
FitReturn ==
    /\ pc = "fit"
    /\ fit.phase = "train"
    /\ (fit.epoch >= fit.epochs \/ model.stop_training)
    /\ Return("train_model")
    /\ UNCHANGED <<fs, config, train, valid, test, gens, model, fit, Y_pred,
                   err, iterated>>

\* Rows recorded in Y_pred: the first MaxPredRecorded of what predict gathers.
Recorded(rows) == SubSeq(rows, 1, Min(Len(rows), MaxPredRecorded))

\* model.predict(test_batches): called without steps, it takes batches from
\* the generator until the generator ends, one batch per step.  The generator
\* ends only by raising, so the call never returns and the two pickle.dump
\* statements after it (lines 190-194) have no step.
PredictStep ==
    /\ pc = "predict"
    /\ \E perm \in Perms(Len(test)) :
         LET g == GenNext(gens.test, perm)
         IN  IF g.finished
             THEN Raise("IndexError")
             ELSE /\ gens' = [gens EXCEPT !.test = g]
                  /\ Y_pred' = Recorded(Y_pred \o g.raw.rows)
                  /\ UNCHANGED <<pc, fs, config, train, valid, test, model, fit,
                                 completed, err, iterated>>

\* The steps of a run whose config.json is one of `files` and whose csv files
\* are one of `csvs`.
Run(files, csvs) ==
    \/ LoadConfig(files)
    \/ LoadDatasets(csvs)
    \/ GetImageGenerators
    \/ GetModel
    \/ TrainModel
    \/ FitTrain
    \/ FitValidate
    \/ FitReturn
    \/ PredictStep

Next == Run(ConfigFiles, Manifests)

Spec == Init /\ [][Next]_vars

\* Runs with readable files, for the rows each epoch consumes.
EpochInit ==
    /\ Init
    /\ fs.config_json = "ok" /\ fs.train_csv = "ok"
    /\ fs.valid_csv = "ok" /\ fs.test_csv = "ok"

EpochNext == Run(EpochConfigFiles, EpochManifests)

EpochSpec == EpochInit /\ [][EpochNext]_vars

\* The script is one thread that blocks on each call: once the last epoch is
\* over model.fit returns, and model.predict takes its next batch whenever the
\* generator has one.
FairSpec == EpochSpec /\ WF_vars(FitReturn) /\ WF_vars(PredictStep)

----------------------------------------------------------------------------
(* load_datasets on arbitrary path values *)

\* What config.json holds there: any IMAGE_BASE_PATH.
PathConfigFiles ==
    {[DefaultConfig EXCEPT !.IMAGE_BASE_PATH = base] : base \in PathValues}

ReadableInit ==
    /\ Init
    /\ fs.config_json = "ok" /\ fs.train_csv = "ok"
    /\ fs.valid_csv = "ok" /\ fs.test_csv = "ok"
    /\ fs.weights_dir = "absent"

PathNext ==
    \/ LoadConfig(PathConfigFiles)
    \/ LoadDatasets(PathManifests)

PathSpec == ReadableInit /\ [][PathNext]_vars

----------------------------------------------------------------------------
(* A caller that iterates the three generators *)

\* What config.json holds there: every class count with every batch size.
GenConfigFiles ==
    {[DefaultConfig EXCEPT !.NUM_CLASSES = nc, !.BATCH_SIZE = b, !.TEST_BATCH = b] :
        nc \in NumClassesValues, b \in BatchSizes}

\* The three csv files there: as many rows in each.
GenManifests == {<<Manifest(n), Manifest(n), Manifest(n)>> : n \in 1..MaxRows}

\* next() on one of the generators get_image_generators returned.
NextBatch(s) ==
    /\ pc = "get_model"
    /\ ~gens[s].finished
    /\ \E perm \in Perms(gens[s].it.n) :
         gens' = [gens EXCEPT ![s] = GenNext(gens[s], perm)]
    /\ iterated' = [iterated EXCEPT
                       ![s] = IF iterated[s] = "pending" THEN "resumed" ELSE "no"]
    /\ UNCHANGED <<pc, fs, config, train, valid, test, model, fit, Y_pred,
                   completed, err>>

\* iter() on one of them, to go over it again: the call is pending until the
\* next batch is taken, and that batch is the one the sequence resumed with.
IterAgain(s) ==
    /\ pc = "get_model"
    /\ gens' = [gens EXCEPT ![s] = PyIter(gens[s])]
    /\ iterated' = [iterated EXCEPT ![s] = "pending"]
    /\ UNCHANGED <<pc, fs, config, train, valid, test, model, fit, Y_pred,
                   completed, err>>

GenStep ==
    \/ LoadConfig(GenConfigFiles)
    \/ LoadDatasets(GenManifests)
    \/ GetImageGenerators
    \/ \E s \in Splits : NextBatch(s)
    \/ \E s \in Splits : IterAgain(s)

GenSpec == ReadableInit /\ [][GenStep]_vars

----------------------------------------------------------------------------
(* Properties *)

Range(f) == {f[i] : i \in DOMAIN f}

IsPrefix(p, q) == Len(p) <= Len(q) /\ SubSeq(q, 1, Len(p)) = p

IsSuffix(p, q) == Len(p) <= Len(q) /\ SubSeq(q, Len(q) - Len(p) + 1, Len(q)) = p

\* The rows of the three dataframes.
AllRows == Range(train) \cup Range(valid) \cup Range(test)

Loaded == "load_datasets" \in Range(completed)

\* C1 as stated: after load_datasets every row's path is the configured base
\* followed by the path the row held in the csv, whatever that path was.
C1_RootedWhateverThePath ==
    Loaded =>
        \A r \in AllRows :
            /\ IsPrefix(config["IMAGE_BASE_PATH"], r.path)
            /\ IsSuffix(r.csv_path, r.path)
            /\ Len(r.path) >= Len(config["IMAGE_BASE_PATH"]) + Len(r.csv_path)

\* C1 amended: after load_datasets a row whose csv path is relative (does not
\* start with "/") holds the base, then one "/" unless the base is empty or
\* ends with "/", then the csv path, and is absolute when the base is; a row
\* whose csv path starts with "/" keeps that path and is not moved under the base.
C1_RootedWhenRelative ==
    Loaded =>
        LET base == config["IMAGE_BASE_PATH"]
        IN  \A r \in AllRows :
              IF startswith(r.csv_path, SEP)
              THEN r.path = r.csv_path
              ELSE LET gap == Len(r.path) - Len(base) - Len(r.csv_path)
                   IN  /\ IsPrefix(base, r.path)
                       /\ IsSuffix(r.csv_path, r.path)
                       /\ gap \in {0, 1}
                       /\ gap = 1 => r.path[Len(base) + 1] = SEP
                       /\ gap = 0 <=> (base = <<>> \/ endswith(base, SEP))
                       /\ startswith(base, SEP) => startswith(r.path, SEP)

\* A relative csv path has been put under an absolute base in each dataframe.
C1_Witness ==
    /\ Loaded
    /\ config["IMAGE_BASE_PATH"] = <<"/", "a">>
    /\ \A df \in {train, valid, test} :
         /\ Len(df) = 1
         /\ df[1].csv_path = <<"a">>
         /\ df[1].path = <<"/", "a", "/", "a">>

\* Column i (from 0) of a batch_y, one entry per row of the batch.
Column(batch_y, i) == [k \in 1..Len(batch_y) |-> batch_y[k][i]]

\* What C2 says of a generator that has taken a batch from its iterator.
YieldsLabelList(g) ==
    /\ ~g.finished
    /\ g.yielded = 1
    /\ g.out.x = g.raw.x
    /\ Len(g.out.y) = g.num_classes
    /\ \A i \in 1..Len(g.out.y) :
         /\ g.out.y[i] = Column(g.raw.y, i - 1)
         /\ Len(g.out.y[i]) = Len(g.raw.x)

\* A generator whose wrapper has taken a batch from the underlying iterator.
TookBatch(g) == g.raw.rows # <<>>

\* C2 as stated: for every batch taken from the underlying iterator the wrapper
\* yields batch_x unchanged and NUM_CLASSES label arrays, the i-th being column
\* i of batch_y with one entry per row, for every configured NUM_CLASSES.
C2_LabelListForEveryNumClasses ==
    \A s \in Splits : TookBatch(gens[s]) => YieldsLabelList(gens[s])

\* C2 amended: the same for every NUM_CLASSES up to the 14 label columns; with
\* a larger NUM_CLASSES the wrapper raises IndexError on the first batch it
\* takes and yields nothing.
C2_LabelListUpToNumLabels ==
    \A s \in Splits :
        TookBatch(gens[s]) =>
            IF gens[s].num_classes <= NumLabels
            THEN YieldsLabelList(gens[s])
            ELSE /\ gens[s].finished
                 /\ gens[s].yielded = 0
                 /\ gens[s].out.y = <<>>

\* A batch shorter than the batch size has been reshaped into 14 label arrays.
C2_Witness ==
    \E s \in Splits :
        /\ TookBatch(gens[s])
        /\ Len(gens[s].raw.rows) < gens[s].it.batch_size
        /\ gens[s].num_classes = NumLabels
        /\ Len(gens[s].out.y) = NumLabels
        /\ gens[s].out.y[NumLabels] = <<<<gens[s].raw.rows[1], NumLabels - 1>>>>

\* A step that calls iter() on generator s again.
IteratesAgain(s) == iterated'[s] = "pending" /\ iterated[s] # "pending"

\* A step that takes a batch from generator s.
TakesBatch(s) ==
    /\ ~IteratesAgain(s)
    /\ gens'[s] # gens[s] \/ iterated'[s] # iterated[s]

\* C8 as stated: every request yields a batch, wrapping around after the last
\* row, and the first batch after iterating the sequence again is the first
\* batch of the manifest.
C8_InfiniteAndRestartable ==
    \A s \in Splits :
        /\ TookBatch(gens[s]) => ~gens[s].finished /\ gens[s].yielded = 1
        /\ iterated[s] = "resumed" => gens[s].raw.start = 0

\* C8 amended: with NUM_CLASSES up to 14 and a non-empty manifest every request
\* yields a non-empty batch that begins where the previous one ended, wrapping
\* around to the start after the last row; iterating the sequence again does
\* not restart it, the generator is left where it was and the next batch
\* continues from there.
C8_InfiniteNotRestartable ==
    [][\A s \in Splits :
          /\ IteratesAgain(s) => gens'[s] = gens[s]
          /\ (TakesBatch(s) /\ gens[s].num_classes <= NumLabels /\ gens[s].it.n > 0) =>
                /\ ~gens'[s].finished
                /\ gens'[s].raw.rows # <<>>
                /\ gens'[s].out.x # <<>>
                /\ gens'[s].raw.start =
                      IF gens[s].yielded = 0 THEN 0
                      ELSE (gens[s].raw.start + Len(gens[s].raw.rows)) % gens[s].it.n]_vars

\* A generator was iterated again in the middle of a pass and resumed with a
\* batch that is not the first of the manifest.
C8_Witness ==
    \E s \in Splits :
        /\ iterated[s] = "resumed"
        /\ gens[s].yielded = 1
        /\ gens[s].raw.start > 0

Done(stage) == stage \in Range(completed)

\* C3: once get_model has returned the model has NUM_CLASSES outputs, each of
\* width 1 and each fed from the one trunk tensor; train_model configures as
\* many losses as there are heads, and every batch a generator yields carries
\* as many label arrays.
C3_OneHeadPerClass ==
    Done("get_model") =>
        /\ Len(model.outputs) = config["NUM_CLASSES"]
        /\ \A i \in 1..Len(model.outputs) :
             model.outputs[i].units = 1 /\ model.outputs[i].input = model.trunk
        /\ pc \in {"fit", "predict"} => Len(model.losses) = Len(model.outputs)
        /\ \A s \in Splits :
             gens[s].yielded = 1 => Len(gens[s].out.y) = Len(model.outputs)

\* A 14-head model has been compiled and has trained on a yielded batch.
C3_Witness ==
    /\ pc = "fit"
    /\ fit.epoch >= 1
    /\ Len(model.outputs) = NumLabels
    /\ Len(model.losses) = NumLabels
    /\ Len(gens.train.out.y) = NumLabels
    /\ Len(gens.valid.out.y) = NumLabels

\* C4 as stated: whenever model.fit runs, the path WEIGHTS_DIR names a
\* directory.
C4_WeightsDirExistsInFit ==
    pc = "fit" => fs.weights_dir = "dir"

\* The stages before position i of __main__.
StagesBefore(i) == SubSeq(StageOrder, 1, i - 1)

\* C5: the stages run in the order config load, manifest load, generator
\* construction, model construction, training, prediction, persistence, each
\* after the previous one returned and none twice, and 'train_hist' is not
\* written before 'predictions'.
C5_StagesInOrder ==
    /\ Len(completed) <= Len(StageOrder)
    /\ completed = StagesBefore(Len(completed) + 1)
    /\ pc \notin {"error", "done"} => completed = StagesBefore(StageIndex(StageOf(pc)))
    /\ pc = "error" => completed = StagesBefore(StageIndex(err.stage))
    /\ "train_hist" \in fs.written => "predictions" \in fs.written

\* Prediction runs and the five stages before it have returned in order.
C5_Witness ==
    /\ pc = "predict"
    /\ Y_pred # <<>>
    /\ completed = <<"load_config", "load_datasets", "get_image_generators",
                     "get_model", "train_model">>

\* C6 as stated: once training has ended the run writes the 'predictions' file
\* and the 'train_hist' file, the predictions being one per test row in
\* manifest order.
C6_PredictionsAndHistoryWritten ==
    (pc = "predict") ~>
        /\ "predictions" \in fs.written
        /\ "train_hist" \in fs.written
        /\ Y_pred = [i \in 1..Len(test) |-> i]

MissingAny(keys) == Done("load_config") /\ FirstMissing(config, keys) # "none"

\* The first stage of __main__ that needs something the run lacks: a readable
\* config.json, a readable manifest, or a key of the loaded configuration.
FaultStage ==
    IF fs.config_json # "ok" THEN "load_config"
    ELSE IF \/ fs.train_csv # "ok" \/ fs.valid_csv # "ok" \/ fs.test_csv # "ok"
            \/ MissingAny(<<"META_BASE_PATH", "IMAGE_BASE_PATH">>)
         THEN "load_datasets"
    ELSE IF MissingAny(<<"IMG_HEIGHT", "IMG_WIDTH", "BATCH_SIZE", "TEST_BATCH",
                         "NUM_CLASSES">>)
         THEN "get_image_generators"
    ELSE IF MissingAny(<<"INITIAL_LR", "MAX_EPOCHS", "WEIGHTS_DIR">>)
         THEN "train_model"
    ELSE "none"

FailsAt(stage) ==
    /\ Len(completed) < StageIndex(stage)
    /\ Len(completed) = StageIndex(stage) - 1 => pc \in {stage, "error"}
    /\ pc = "error" =>
         /\ err.stage = stage
         /\ err.exc \in {"FileNotFoundError", "JSONDecodeError", "ParserError",
                         "KeyError"}
    /\ "predictions" \notin fs.written
    /\ "train_hist" \notin fs.written

\* C7: when config.json or a manifest is absent or malformed, or a required
\* key is missing, the stage that needs it raises an uncaught error: that
\* stage never returns, no later stage starts, neither 'predictions' nor
\* 'train_hist' is written, and a run that has ended with an error takes no
\* further step.
C7_FailsAtTheStageThatNeedsIt ==
    /\ [](FaultStage # "none" => FailsAt(FaultStage))
    /\ [][pc = "error" => pc' = "error" /\ completed' = completed]_vars

\* A malformed validation manifest has ended the run in load_datasets.
C7_Witness ==
    /\ fs.valid_csv = "malformed"
    /\ fs.train_csv = "ok"
    /\ completed = <<"load_config">>
    /\ pc = "error"
    /\ err = [stage |-> "load_datasets", exc |-> "ParserError"]

\* The epochs whose validation loss is the lowest of the run.
BestEpochs(history) ==
    {k \in 1..Len(history) : \A j \in 1..Len(history) : history[k] <= history[j]}

\* The latest epoch that improved on all epochs before it.
LastImprovement(history) ==
    CHOOSE k \in 1..Len(history) :
        /\ \A j \in 1..(k - 1) : history[k] < history[j]
        /\ \A j \in (k + 1)..Len(history) : history[j] >= history[k]

\* C9 as stated: training runs at most MAX_EPOCHS epochs and ends once 4
\* epochs in a row have not improved val_loss, and however it ends the
\* weights the model holds when prediction starts are those of the epoch with
\* the lowest val_loss, which are the weights last saved to model.hdf5
\* (epochs of equal val_loss count as one).
C9_BestWeightsWhenPredictionStarts ==
    pc = "predict" =>
        /\ Len(fit.history) \in 1..config["MAX_EPOCHS"]
        /\ Len(fit.history) - LastImprovement(fit.history) <= ESPatience
        /\ Len(fit.history) < config["MAX_EPOCHS"] =>
               Len(fit.history) - LastImprovement(fit.history) = ESPatience
        /\ model.weights \in BestEpochs(fit.history)
        /\ fit.checkloss.saved \in BestEpochs(fit.history)

\* The rows 1..n, each once, in some order.
IsPermutation(rows, n) == Len(rows) = n /\ Range(rows) = 1..n

\* The least number of batches of at most batch_size rows that hold n rows.
BatchesToCover(n, batch_size) ==
    CHOOSE k \in 0..n : k * batch_size >= n /\ (k = 0 \/ (k - 1) * batch_size < n)

====
